---- MODULE Spec2Model ----
(***************************************************************************)
(* Model of the two Streamlit dashboards of the repository.                *)
(*                                                                         *)
(*   BookScape.py: one script run is a walk through the script's sections  *)
(*   (search handler, stored-data display, Run Query handler, Run Analysis *)
(*   handler, book details); the SQLite table 'books' is the only state    *)
(*   that survives a run.                                                  *)
(*                                                                         *)
(*   DataDrivenStockAnalysis.py: load_data on an uploaded CSV.             *)
(*                                                                         *)
(* Python values: None is the empty tuple and a present value v is <<v>>,  *)
(* so that a column can hold None next to strings, numbers and booleans.   *)
(* A dict is a function whose DOMAIN is its key set.                       *)
(***************************************************************************)
EXTENDS Integers, Sequences, FiniteSets, TLC

VARIABLES
    tableExists,    \* books.db has a table 'books'
    tableRows,      \* its rows, in rowid order
    pc,             \* position of the running script
    clicked,        \* the button whose click started this run ("none": other rerun)
    books,          \* BookScape.py:79  result of fetch_books in this run
    df,             \* BookScape.py:81  result of transform_data in this run
    shown,          \* messages and widgets rendered by this run, in order
    data,           \* BookScape.py:89  result of SELECT * FROM books
    analysis_choice,\* BookScape.py:126 value of the selectbox read by this run
    result,         \* BookScape.py:131.. result of the analysis query
    queries,        \* branches whose query_database call the analysis block made
    raised,         \* the exception raised inside the analysis block, if any
    response,       \* BookScape.py:17  the HTTP response of this run's search
    lastFetched,    \* history: items of the latest search that returned any
    dropped,        \* history: Run Query executed DDL since that search
    uploaded_file,  \* DataDrivenStockAnalysis.py:22
    stock_pc,       \* position of the stock script
    stock_shown,    \* messages rendered by the stock script
    stock_data      \* DataDrivenStockAnalysis.py:38

vars == <<tableExists, tableRows, pc, clicked, books, df, shown, data,
          analysis_choice, result, queries, raised, response, lastFetched,
          dropped, uploaded_file, stock_pc, stock_shown, stock_data>>

bookVars == <<tableExists, tableRows, pc, clicked, books, df, shown, data,
              analysis_choice, result, queries, raised, response, lastFetched, dropped>>

stockVars == <<uploaded_file, stock_pc, stock_shown, stock_data>>

----------------------------------------------------------------------------
(* Bounds *)

MaxBooks == 3       \* items in one API response of the dashboard runs
MaxItems == 2       \* items in one input of transform_data checked alone
MaxRecords == 3     \* records in one uploaded CSV

----------------------------------------------------------------------------
(* Python helpers *)

None == <<>>

Some(v) == <<v>>

EmptyDict == [k \in {} |-> None]

Unset == "unset"

\* d.get(k)
PyGet(d, k) == IF k \in DOMAIN d THEN Some(d[k]) ELSE None

\* d.get(k, default) where the value is used as it is (dict, list or str)
PyGetOr(d, k, default) == IF k \in DOMAIN d THEN d[k] ELSE default

\* d without key k: an item as the API returns it when the field is absent
Without(d, k) == [x \in DOMAIN d \ {k} |-> d[x]]

\* d with d[k] replaced
With(d, k, v) == [x \in DOMAIN d |-> IF x = k THEN v ELSE d[x]]

Min(a, b) == IF a < b THEN a ELSE b

\* sep.join(list)
RECURSIVE Join(_, _)
Join(sep, list) ==
    IF list = <<>> THEN ""
    ELSE IF Len(list) = 1 THEN list[1]
    ELSE list[1] \o sep \o Join(sep, Tail(list))

\* s[:n]
Prefix(s, n) == SubSeq(s, 1, Min(n, Len(s)))

Range(s) == {s[i] : i \in DOMAIN s}

\* all sequences over S of length 0..n
SeqsUpTo(S, n) == UNION {[1..k -> S] : k \in 0..n}

----------------------------------------------------------------------------
(* API items *)

\* volumeInfo of a complete Google Books item
BaseVolume(authors, publishedDate) ==
    [title |-> "Title", subtitle |-> "Subtitle", authors |-> authors,
     description |-> "Text", categories |-> <<"Computers">>,
     pageCount |-> 320, language |-> "en",
     imageLinks |-> [thumbnail |-> "http://img"],
     averageRating |-> 4, ratingsCount |-> 12, publisher |-> "Press",
     publishedDate |-> publishedDate]

\* saleInfo of a complete Google Books item
BaseSale ==
    [isEbook |-> TRUE, saleability |-> "FOR_SALE",
     listPrice |-> [amount |-> 25, currencyCode |-> "USD"],
     retailPrice |-> [amount |-> 20, currencyCode |-> "USD"],
     buyLink |-> "http://buy", country |-> "US"]

BaseBook(authors, publishedDate) ==
    [id |-> "vol", volumeInfo |-> BaseVolume(authors, publishedDate),
     saleInfo |-> BaseSale]

SampleBook == BaseBook(<<"Ann", "Bob">>, "2001-05-17")

\* SampleBook with one key of volumeInfo / saleInfo / a price / imageLinks absent
DropVolumeKey(b, k) == With(b, "volumeInfo", Without(b.volumeInfo, k))

DropSaleKey(b, k) == With(b, "saleInfo", Without(b.saleInfo, k))

DropInner(b, outer, inner, k) ==
    With(b, outer, With(b[outer], inner, Without(b[outer][inner], k)))

\* the items transform_data is checked on: every way one key can be absent
WideItems ==
    {SampleBook}
    \cup {Without(SampleBook, k) : k \in DOMAIN SampleBook}
    \cup {DropVolumeKey(SampleBook, k) : k \in DOMAIN SampleBook.volumeInfo}
    \cup {DropSaleKey(SampleBook, k) : k \in DOMAIN SampleBook.saleInfo}
    \cup {DropInner(SampleBook, "saleInfo", p, k) :
            p \in {"listPrice", "retailPrice"}, k \in {"amount", "currencyCode"}}
    \cup {DropInner(SampleBook, "volumeInfo", "imageLinks", "thumbnail")}

\* the items the dashboard runs search for: one author value over several
\* publication dates, and an incomplete item
SearchItems ==
    {BaseBook(<<"Ann">>, d) : d \in {"2001-05-17", "2002", "2003-11", "2005-01-02"}}
    \cup {DropVolumeKey(BaseBook(<<"Ann">>, "2002"), "subtitle")}

----------------------------------------------------------------------------
(* BookScape.py functions *)

\* HTTP responses of the catalog API
Responses(items) ==
    {[status_code |-> 200, body |-> [kind |-> "books#volumes", items |-> l]] :
        l \in SeqsUpTo(items, MaxBooks)}
    \cup {[status_code |-> 200, body |-> [kind |-> "books#volumes"]]}
    \cup {[status_code |-> s, body |-> b] :
            s \in {400, 503},
            b \in {[error |-> "e"]} \cup {[error |-> "e", items |-> <<i>>] : i \in items}}

NoResponse == [status_code |-> 0, body |-> EmptyDict]

\* fetch_books without the status check
fetch_books_any_status(resp) == PyGetOr(resp.body, "items", <<>>)

fetch_books(resp) ==
    IF resp.status_code = 200
    THEN PyGetOr(resp.body, "items", <<>>)
    ELSE <<>>

\* the dict appended for one book
BookRow(book) ==
    LET volume_info == PyGetOr(book, "volumeInfo", EmptyDict)
        sale_info == PyGetOr(book, "saleInfo", EmptyDict)
        list_price == PyGetOr(sale_info, "listPrice", EmptyDict)
        retail_price == PyGetOr(sale_info, "retailPrice", EmptyDict)
    IN  [book_id |-> PyGet(book, "id"),
         title |-> PyGet(volume_info, "title"),
         subtitle |-> PyGet(volume_info, "subtitle"),
         authors |-> Some(Join(", ", PyGetOr(volume_info, "authors", <<>>))),
         description |-> PyGet(volume_info, "description"),
         categories |-> Some(Join(", ", PyGetOr(volume_info, "categories", <<>>))),
         page_count |-> PyGet(volume_info, "pageCount"),
         language |-> PyGet(volume_info, "language"),
         image_link |-> PyGet(PyGetOr(volume_info, "imageLinks", EmptyDict), "thumbnail"),
         average_rating |-> PyGet(volume_info, "averageRating"),
         ratings_count |-> PyGet(volume_info, "ratingsCount"),
         publisher |-> PyGet(volume_info, "publisher"),
         published_year |-> Some(Prefix(PyGetOr(volume_info, "publishedDate", ""), 4)),
         is_ebook |-> PyGet(sale_info, "isEbook"),
         saleability |-> PyGet(sale_info, "saleability"),
         amount_list_price |-> PyGet(list_price, "amount"),
         currency_code_list_price |-> PyGet(list_price, "currencyCode"),
         amount_retail_price |-> PyGet(retail_price, "amount"),
         currency_code_retail_price |-> PyGet(retail_price, "currencyCode"),
         buy_link |-> PyGet(sale_info, "buyLink"),
         country |-> PyGet(sale_info, "country")]

\* df.dropna(): keep the rows with no null in any column
HasNull(row) == \E c \in DOMAIN row : row[c] = None

\* df.dropna(how="all") in place of df.dropna()
dropna_how_all(frame) == SelectSeq(frame, LAMBDA row : \E c \in DOMAIN row : row[c] # None)

dropna(frame) == SelectSeq(frame, LAMBDA row : ~HasNull(row))

transform_data(bs) == dropna([i \in 1..Len(bs) |-> BookRow(bs[i])])

\* df.to_sql("books", conn, if_exists="replace"): the table after the call
\* if_exists="append" in place of if_exists="replace"
save_to_database_append(frame, oldRows) == oldRows \o frame

save_to_database(frame, oldRows) == frame

----------------------------------------------------------------------------
(* BookScape.py: the analysis menu *)

analysis_options ==
    << "Availability of eBooks vs Physical Books",
       "Top 5 Most Expensive Books",
       "Books with High Ratings",
       "Books by Year and Publisher",
       "Find the Publisher with the Most Books Published",
       "Identify the Publisher with the Highest Average Rating",
       "Find Books Published After 2010 with at Least 500 Pages",
       "List Books with Discounts Greater than 20%",
       "Find the Average Page Count for eBooks vs Physical Books",
       "Find the Top 3 Authors with the Most Books",
       "List Publishers with More than 10 Books",
       "Find the Average Page Count for Each Category",
       "Retrieve Books with More than 3 Authors",
       "Books with Ratings Count Greater Than the Average",
       "Books with the Same Author Published in the Same Year",
       "Books with a Specific Keyword in the Title",
       "Year with the Highest Average Book Price",
       "Count Authors Who Published 3 Consecutive Years",
       "Authors Published in Same Year but Different Publishers" >>

\* the literals of the if/elif chain, in chain order
BranchLiterals ==
    << "Availability of eBooks vs Physical Books",
       "Top 5 Most Expensive Books",
       "Books with High Ratings",
       "Books by Year and Publisher",
       "Find the Publisher with the Most Books Published",
       "Identify the Publisher with the Highest Average Rating",
       "Find Books Published After 2010 with at Least 500 Pages",
       "List Books with Discounts Greater than 20%",
       "Find the Average Page Count for eBooks vs Physical Books",
       "Find the Top 3 Authors with the Most Books",
       "List Publishers with More than 10 Books",
       "Find the Average Page Count for Each Category",
       "Retrieve Books with More than 3 Authors",
       "Books with Ratings Count Greater Than the Average",
       "Books with the Same Author Published in the Same Year",
       "Books with a Specific Keyword in the Title",
       "Year with the Highest Average Book Price",
       "Count Authors Who Published 3 Consecutive Years",
       "Authors Published in Same Year but Different Publishers" >>

\* the widget each branch hands its result to, in chain order
BranchWidgets ==
    << "bar_chart", "table", "table", "table", "table", "table", "table",
       "table", "bar_chart", "table", "table", "table", "table", "table",
       "table", "table", "table", "table", "table" >>

\* if/elif: the first branch whose literal equals the choice, 0 when the chain
\* falls through
RECURSIVE FirstMatch(_, _)
FirstMatch(choice, i) ==
    IF i > Len(BranchLiterals) THEN 0
    ELSE IF choice = BranchLiterals[i] THEN i
    ELSE FirstMatch(choice, i + 1)

\* the chain with its first branch lost
Dispatch_from_second(choice) == FirstMatch(choice, 2)

Dispatch(choice) == FirstMatch(choice, 1)

\* SELECT authors, COUNT(DISTINCT published_year) AS consecutive_years
\* FROM books GROUP BY authors HAVING consecutive_years >= 3
DistinctYears(rows, a) ==
    {rows[i].published_year : i \in {j \in DOMAIN rows : rows[j].authors = a}}

ConsecutiveYearsQuery(rows) ==
    LET groups == {rows[i].authors : i \in DOMAIN rows}
    IN  {[authors |-> a, consecutive_years |-> Cardinality(DistinctYears(rows, a))] :
            a \in {g \in groups : Cardinality(DistinctYears(rows, g)) >= 3}}

\* the result of branch b read from the table; only the consecutive-years
\* query is evaluated, the other branches are recorded by their number
AnalysisQuery(b, rows) ==
    IF BranchLiterals[b] = "Count Authors Who Published 3 Consecutive Years"
    THEN [branch |-> b, rows |-> ConsecutiveYearsQuery(rows)]
    ELSE [branch |-> b, rows |-> {}]

\* query_database(sql) opens the file, runs one SELECT and closes: the table
\* after the call
\* a query that empties the table it reads
TableAfterQuery_delete(rows) == <<>>

TableAfterQuery(rows) == rows

----------------------------------------------------------------------------
(* BookScape.py: one script run *)

Buttons == {"none", "Search", "Run Query", "Run Analysis"}

NoResult == [branch |-> 0, rows |-> {}]

\* what can go wrong inside the analysis block: the query raises, the widget
\* raises, or nothing does
Failures == {"none", "query", "render"}

\* the statements typed into the Run Query text area
Statements == {"select", "drop table", "invalid"}

\* the chain without its try/except: an exception ends the run
AnalysisBlockExit_uncaught(failure) == IF failure = "none" THEN "details" ELSE "crashed"

\* try: <chain> except Exception as e: st.error(...): where the script goes on
AnalysisBlockExit(failure) == "details"

\* a click or any other widget change reruns the script from its first line
StartRun ==
    /\ pc \in {"idle", "done", "crashed"}
    /\ \E b \in Buttons : clicked' = b
    /\ pc' = "search"
    /\ books' = <<>>
    /\ df' = <<>>
    /\ shown' = <<>>
    /\ data' = <<>>
    /\ analysis_choice' = Unset
    /\ result' = NoResult
    /\ queries' = <<>>
    /\ raised' = "none"
    /\ response' = NoResponse
    /\ UNCHANGED <<tableExists, tableRows, lastFetched, dropped>>

\* lines 77-83: Search clicked and the API returned items
SearchFound ==
    /\ pc = "search" /\ clicked = "Search"
    /\ \E r \in Responses(SearchItems) :
        LET fetched == fetch_books(r)
        IN  /\ fetched # <<>>
            /\ response' = r
            /\ books' = fetched
            /\ df' = transform_data(fetched)
            /\ tableExists' = TRUE
            /\ tableRows' = save_to_database(df', tableRows)
            /\ shown' = Append(shown, [widget |-> "success", count |-> Len(df')])
            /\ lastFetched' = fetched
    /\ dropped' = FALSE
    /\ pc' = "display"
    /\ UNCHANGED <<clicked, data, analysis_choice, result, queries, raised>>

\* lines 77-85: Search clicked and fetch_books returned the empty list
SearchEmpty ==
    /\ pc = "search" /\ clicked = "Search"
    /\ \E r \in Responses(SearchItems) :
        /\ fetch_books(r) = <<>>
        /\ response' = r
        /\ books' = fetch_books(r)
    /\ shown' = Append(shown, [widget |-> "error", text |-> "No books found."])
    /\ pc' = "display"
    /\ UNCHANGED <<tableExists, tableRows, clicked, df, data, analysis_choice,
                   result, queries, raised, lastFetched, dropped>>

\* line 17: requests.get raises (no connection); nothing catches it
SearchRaises ==
    /\ pc = "search" /\ clicked = "Search"
    /\ pc' = "crashed"
    /\ shown' = Append(shown, [widget |-> "exception", text |-> "ConnectionError"])
    /\ UNCHANGED <<tableExists, tableRows, clicked, books, df, data, analysis_choice,
                   result, queries, raised, response, lastFetched, dropped>>

\* line 77: the button was not clicked
SearchSkip ==
    /\ pc = "search" /\ clicked # "Search"
    /\ pc' = "display"
    /\ UNCHANGED <<tableExists, tableRows, clicked, books, df, shown, data,
                   analysis_choice, result, queries, raised, response, lastFetched, dropped>>

\* lines 88-90: SELECT * FROM books, outside any try
DisplayStored ==
    /\ pc = "display"
    /\ IF tableExists
       THEN /\ data' = tableRows
            /\ shown' = Append(shown, [widget |-> "dataframe", count |-> Len(tableRows)])
            /\ pc' = "query"
       ELSE /\ data' = data
            /\ shown' = Append(shown, [widget |-> "exception", text |-> "no such table: books"])
            /\ pc' = "crashed"
    /\ UNCHANGED <<tableExists, tableRows, clicked, books, df, analysis_choice,
                   result, queries, raised, response, lastFetched, dropped>>

\* lines 94-101: Run Query clicked; the statement is the user's
RunQuery ==
    /\ pc = "query" /\ clicked = "Run Query"
    /\ \E stmt \in Statements :
        /\ shown' = Append(shown,
                IF stmt = "select"
                THEN [widget |-> "dataframe", count |-> Len(tableRows)]
                ELSE [widget |-> "error", text |-> "Error running query"])
        /\ tableExists' = IF stmt = "drop table" THEN FALSE ELSE tableExists
        /\ tableRows' = IF stmt = "drop table" THEN <<>> ELSE tableRows
        /\ dropped' = IF stmt = "drop table" THEN TRUE ELSE dropped
    /\ pc' = "analysis"
    /\ UNCHANGED <<clicked, books, df, data, analysis_choice, result, queries, raised, response,
                   lastFetched>>

RunQuerySkip ==
    /\ pc = "query" /\ clicked # "Run Query"
    /\ pc' = "analysis"
    /\ UNCHANGED <<tableExists, tableRows, clicked, books, df, shown, data,
                   analysis_choice, result, queries, raised, response, lastFetched, dropped>>

\* what the analysis block renders for branch b
AnalysisShown(b, failure) ==
    (IF BranchLiterals[b] = "Books with a Specific Keyword in the Title"
     THEN <<[widget |-> "text_input", text |-> "Python"]>> ELSE <<>>)
    \o (IF failure = "none"
        THEN <<[widget |-> BranchWidgets[b], text |-> BranchLiterals[b]]>>
        ELSE <<[widget |-> "error", text |-> "Error running analysis"]>>)

\* lines 126-286: Run Analysis clicked
RunAnalysis ==
    /\ pc = "analysis" /\ clicked = "Run Analysis"
    /\ \E choice \in Range(analysis_options), failure \in Failures :
        LET b == Dispatch(choice)
        IN  /\ analysis_choice' = choice
            /\ IF b = 0
               THEN /\ UNCHANGED <<result, queries, raised, shown, tableRows>>
                    /\ pc' = "details"
               ELSE /\ queries' = Append(queries, b)
                    /\ raised' = failure
                    /\ result' = IF failure = "query" THEN NoResult
                                 ELSE AnalysisQuery(b, tableRows)
                    /\ tableRows' = TableAfterQuery(tableRows)
                    /\ shown' = shown \o AnalysisShown(b, failure)
                    /\ pc' = AnalysisBlockExit(failure)
    /\ UNCHANGED <<tableExists, clicked, books, df, data, response, lastFetched,
                   dropped>>

RunAnalysisSkip ==
    /\ pc = "analysis" /\ clicked # "Run Analysis"
    /\ pc' = "details"
    /\ UNCHANGED <<tableExists, tableRows, clicked, books, df, shown, data,
                   analysis_choice, result, queries, raised, response, lastFetched, dropped>>

\* lines 289-310: one card per row of data
BookDetails ==
    /\ pc = "details"
    /\ shown' = Append(shown, [widget |-> "details", count |-> Len(data)])
    /\ pc' = "done"
    /\ UNCHANGED <<tableExists, tableRows, clicked, books, df, data, analysis_choice,
                   result, queries, raised, response, lastFetched, dropped>>

Init ==
    /\ tableExists = FALSE
    /\ tableRows = <<>>
    /\ pc = "idle"
    /\ clicked = "none"
    /\ books = <<>>
    /\ df = <<>>
    /\ shown = <<>>
    /\ data = <<>>
    /\ analysis_choice = Unset
    /\ result = NoResult
    /\ queries = <<>>
    /\ raised = "none"
    /\ response = NoResponse
    /\ lastFetched = <<>>
    /\ dropped = FALSE
    /\ uploaded_file = None
    /\ stock_pc = "idle"
    /\ stock_shown = <<>>
    /\ stock_data = <<>>

Next ==
    \/ (StartRun /\ UNCHANGED stockVars)
    \/ (SearchFound /\ UNCHANGED stockVars)
    \/ (SearchEmpty /\ UNCHANGED stockVars)
    \/ (SearchRaises /\ UNCHANGED stockVars)
    \/ (SearchSkip /\ UNCHANGED stockVars)
    \/ (DisplayStored /\ UNCHANGED stockVars)
    \/ (RunQuery /\ UNCHANGED stockVars)
    \/ (RunQuerySkip /\ UNCHANGED stockVars)
    \/ (RunAnalysis /\ UNCHANGED stockVars)
    \/ (RunAnalysisSkip /\ UNCHANGED stockVars)
    \/ (BookDetails /\ UNCHANGED stockVars)

Spec == Init /\ [][Next]_vars

----------------------------------------------------------------------------
(* transform_data on its own, over every way an item can be incomplete *)

InitTransform ==
    /\ books \in SeqsUpTo(WideItems, MaxItems)
    /\ pc = "transform"
    /\ tableExists = FALSE
    /\ tableRows = <<>>
    /\ clicked = "Search"
    /\ df = <<>>
    /\ shown = <<>>
    /\ data = <<>>
    /\ analysis_choice = Unset
    /\ result = NoResult
    /\ queries = <<>>
    /\ raised = "none"
    /\ response = NoResponse
    /\ lastFetched = <<>>
    /\ dropped = FALSE
    /\ uploaded_file = None
    /\ stock_pc = "idle"
    /\ stock_shown = <<>>
    /\ stock_data = <<>>

\* line 81: df = transform_data(books)
TransformCall ==
    /\ pc = "transform"
    /\ df' = transform_data(books)
    /\ pc' = "transformed"
    /\ UNCHANGED <<tableExists, tableRows, clicked, books, shown, data,
                   analysis_choice, result, queries, raised, response, lastFetched, dropped>>
    /\ UNCHANGED stockVars

NextTransform == TransformCall

SpecTransform == InitTransform /\ [][NextTransform]_vars

----------------------------------------------------------------------------
(* DataDrivenStockAnalysis.py *)

NaT == <<>>

Digit(c) ==
    CASE c = "0" -> 0 [] c = "1" -> 1 [] c = "2" -> 2 [] c = "3" -> 3
      [] c = "4" -> 4 [] c = "5" -> 5 [] c = "6" -> 6 [] c = "7" -> 7
      [] c = "8" -> 8 [] c = "9" -> 9

RECURSIVE ParseInt(_)
ParseInt(s) ==
    IF Len(s) = 0 THEN 0
    ELSE ParseInt(SubSeq(s, 1, Len(s) - 1)) * 10 + Digit(SubSeq(s, Len(s), Len(s)))

\* pd.to_datetime on one cell of a column of dash-separated dates: the
\* timestamp as its three date fields, NaT for an empty cell
to_datetime(s) ==
    IF Len(s) = 0 THEN NaT
    ELSE LET dashes == {i \in 1..Len(s) : SubSeq(s, i, i) = "-"}
             i1 == CHOOSE i \in dashes : \A j \in dashes : i <= j
             i2 == CHOOSE i \in dashes : \A j \in dashes : j <= i
         IN  << ParseInt(SubSeq(s, 1, i1 - 1)),
                ParseInt(SubSeq(s, i1 + 1, i2 - 1)),
                ParseInt(SubSeq(s, i2 + 1, Len(s))) >>

\* df["Date"] = pd.to_datetime(df["Date"])
ParseDates(frame) ==
    [i \in 1..Len(frame) |-> With(frame[i], "Date", to_datetime(frame[i].Date))]

\* keep="first" in place of keep="last"
drop_duplicates_first(frame) ==
    LET kept == {i \in 1..Len(frame) :
                    ~\E j \in 1..(i - 1) :
                        /\ frame[j].Date = frame[i].Date
                        /\ frame[j].Symbol = frame[i].Symbol}
        nth[k \in 1..Cardinality(kept)] ==
            CHOOSE i \in kept : Cardinality({j \in kept : j < i}) = k - 1
    IN  [k \in 1..Cardinality(kept) |-> frame[nth[k]]]

\* df.drop_duplicates(subset=["Date", "Symbol"], keep="last"): a row stays
\* unless a later row has the same Date and Symbol
drop_duplicates(frame) ==
    LET kept == {i \in 1..Len(frame) :
                    ~\E j \in (i + 1)..Len(frame) :
                        /\ frame[j].Date = frame[i].Date
                        /\ frame[j].Symbol = frame[i].Symbol}
        \* the kept positions in ascending order
        nth[k \in 1..Cardinality(kept)] ==
            CHOOSE i \in kept : Cardinality({j \in kept : j < i}) = k - 1
    IN  [k \in 1..Cardinality(kept) |-> frame[nth[k]]]

\* lines 25-35 with a file uploaded
load_data(file) == drop_duplicates(ParseDates(file))

\* the cells of the uploaded files
RawDates == {"01-03-2024", "1-3-2024", "01-04-2024", ""}

Records ==
    [Date : RawDates, Symbol : {"TCS", "INFY"}, Close : {100, 105}]

UploadedFiles == {None} \cup {Some(f) : f \in SeqsUpTo(Records, MaxRecords)}

InitStock ==
    /\ uploaded_file \in UploadedFiles
    /\ stock_pc = "load"
    /\ stock_shown = <<>>
    /\ stock_data = <<>>
    /\ tableExists = FALSE
    /\ tableRows = <<>>
    /\ pc = "idle"
    /\ clicked = "none"
    /\ books = <<>>
    /\ df = <<>>
    /\ shown = <<>>
    /\ data = <<>>
    /\ analysis_choice = Unset
    /\ result = NoResult
    /\ queries = <<>>
    /\ raised = "none"
    /\ response = NoResponse
    /\ lastFetched = <<>>
    /\ dropped = FALSE

\* line 38 with uploaded_file set
LoadUploaded ==
    /\ stock_pc = "load" /\ uploaded_file # None
    /\ stock_data' = load_data(uploaded_file[1])
    /\ stock_pc' = "page"
    /\ UNCHANGED <<uploaded_file, stock_shown>>
    /\ UNCHANGED bookVars

\* line 38 with no file: a warning and an empty frame
LoadNothing ==
    /\ stock_pc = "load" /\ uploaded_file = None
    /\ stock_data' = <<>>
    /\ stock_shown' = Append(stock_shown, "Please upload a CSV file to proceed.")
    /\ stock_pc' = "page"
    /\ UNCHANGED uploaded_file
    /\ UNCHANGED bookVars

NextStock == LoadUploaded \/ LoadNothing

SpecStock == InitStock /\ [][NextStock]_vars

----------------------------------------------------------------------------
(* Properties *)

\* the keys a book must carry for none of its 21 columns to be null; authors,
\* categories and publishedDate are not among them
RawComplete(book) ==
    /\ {"id", "volumeInfo", "saleInfo"} \subseteq DOMAIN book
    /\ {"title", "subtitle", "description", "pageCount", "language", "imageLinks",
        "averageRating", "ratingsCount", "publisher"} \subseteq DOMAIN book.volumeInfo
    /\ "thumbnail" \in DOMAIN book.volumeInfo.imageLinks
    /\ {"isEbook", "saleability", "listPrice", "retailPrice", "buyLink", "country"}
          \subseteq DOMAIN book.saleInfo
    /\ {"amount", "currencyCode"} \subseteq DOMAIN book.saleInfo.listPrice
    /\ {"amount", "currencyCode"} \subseteq DOMAIN book.saleInfo.retailPrice

\* C1: transform_data returns, in input order, exactly one row for each input
\* book whose 21 derived columns are all non-null (the books carrying every
\* key but authors, categories and publishedDate), and no returned row has a
\* null in any column.
C1_DropsIncompleteOnly ==
    pc = "transformed" =>
        LET keep == {i \in 1..Len(books) : ~HasNull(BookRow(books[i]))}
        IN  /\ keep = {i \in 1..Len(books) : RawComplete(books[i])}
            /\ Len(df) = Cardinality(keep)
            /\ \A k \in 1..Len(df) :
                /\ Cardinality(DOMAIN df[k]) = 21
                /\ \A c \in DOMAIN df[k] : df[k][c] # None
                /\ \E i \in keep :
                    /\ Cardinality({j \in keep : j < i}) = k - 1
                    /\ df[k] = BookRow(books[i])

\* an incomplete book was dropped and a book without authors was kept with ""
C1_Witness ==
    /\ pc = "transformed"
    /\ Len(books) = 2
    /\ Len(df) = 1
    /\ ~RawComplete(books[1])
    /\ "authors" \notin DOMAIN books[2].volumeInfo
    /\ df[1].authors = Some("")

\* C2: unless Run Query dropped the table since, the table holds exactly the
\* rows transform_data gives for the latest search that returned items, and
\* the count of a success message is the number of rows in the table.
C2_TableIsLatestSearch ==
    /\ (lastFetched # <<>> /\ ~dropped) =>
          (tableExists /\ tableRows = transform_data(lastFetched))
    /\ \A k \in DOMAIN shown :
          shown[k].widget = "success" =>
              (tableExists /\ shown[k].count = Len(tableRows))

\* a search whose only book was incomplete saved an empty table and said 0
C2_Witness ==
    /\ pc = "done"
    /\ clicked = "Search"
    /\ Len(books) = 1
    /\ tableExists /\ tableRows = <<>>
    /\ shown[1] = [widget |-> "success", count |-> 0]
    /\ Len(data) = 0

\* C3: a failure inside the analysis block is shown as 'Error running
\* analysis', ends no run, and the run goes on to the book details.
C3_FailureCaught ==
    /\ raised # "none" =>
          /\ pc \in {"details", "done"}
          /\ \E k \in DOMAIN shown :
                shown[k] = [widget |-> "error", text |-> "Error running analysis"]
          /\ pc = "done" => shown[Len(shown)].widget = "details"
    /\ pc = "crashed" => analysis_choice = Unset

\* the query of an analysis raised and the run reached its end
C3_Witness ==
    /\ raised = "query"
    /\ pc = "done"
    /\ shown[Len(shown)].widget = "details"

\* C4: every option of the dropdown matches exactly one branch literal and
\* every branch literal is an option; a Run Analysis click runs the query of
\* the branch whose literal is the selected string, that query only, and
\* without a failure renders exactly one table or bar chart.
C4_DispatchTotal ==
    /\ \A o \in Range(analysis_options) :
          Cardinality({i \in DOMAIN BranchLiterals : BranchLiterals[i] = o}) = 1
    /\ \A i \in DOMAIN BranchLiterals : BranchLiterals[i] \in Range(analysis_options)
    /\ Len(analysis_options) = 19
    /\ analysis_choice # Unset =>
          /\ Len(queries) = 1
          /\ BranchLiterals[queries[1]] = analysis_choice
          /\ raised = "none" =>
                /\ result.branch = queries[1]
                /\ Cardinality({k \in DOMAIN shown :
                        shown[k].widget \in {"table", "bar_chart"}}) = 1

\* the first option was run and drew its bar chart
C4_Witness ==
    /\ pc = "done"
    /\ analysis_choice = analysis_options[1]
    /\ raised = "none"
    /\ queries = <<1>>
    /\ \E k \in DOMAIN shown : shown[k].widget = "bar_chart"

\* C5: the analysis block leaves the table as it found it, and the result of
\* an analysis is the query of its branch on the table as it is.
C5_AnalysisReadsOnly ==
    [][(pc = "analysis" /\ clicked = "Run Analysis") =>
          /\ tableExists' = tableExists
          /\ tableRows' = tableRows
          /\ raised' # "query" =>
                result' = AnalysisQuery(Dispatch(analysis_choice'), tableRows)]_vars

\* an analysis ran on a table with rows
C5_Witness ==
    /\ pc = "details"
    /\ analysis_choice # Unset
    /\ raised = "none"
    /\ Len(tableRows) = 3

StockKey(row) == <<row.Date, row.Symbol>>

\* C6: in the frame load_data returns no two rows share (Date, Symbol), every
\* (Date, Symbol) of the upload is there, and the row of a pair is its last
\* occurrence in the file.
C6_Deduplicated ==
    (stock_pc = "page" /\ uploaded_file # None) =>
        LET file == uploaded_file[1]
            parsed(i) == With(file[i], "Date", to_datetime(file[i].Date))
        IN  /\ \A k, l \in DOMAIN stock_data :
                StockKey(stock_data[k]) = StockKey(stock_data[l]) => k = l
            /\ \A i \in DOMAIN file :
                \E k \in DOMAIN stock_data : StockKey(stock_data[k]) = StockKey(parsed(i))
            /\ \A k \in DOMAIN stock_data :
                \E i \in DOMAIN file :
                    /\ stock_data[k] = parsed(i)
                    /\ \A j \in DOMAIN file :
                        StockKey(parsed(j)) = StockKey(parsed(i)) => j <= i

\* two spellings of one date for one symbol: the later row was kept
C6_Witness ==
    /\ stock_pc = "page"
    /\ uploaded_file # None
    /\ Len(uploaded_file[1]) = 3
    /\ uploaded_file[1][1].Date = "01-03-2024"
    /\ uploaded_file[1][3].Date = "1-3-2024"
    /\ uploaded_file[1][1].Symbol = uploaded_file[1][3].Symbol
    /\ uploaded_file[1][1].Close # uploaded_file[1][3].Close
    /\ Len(stock_data) = 2
    /\ stock_data[2].Close = uploaded_file[1][3].Close

\* the publication years of the rows of author value a, as numbers
AuthorYears(rows, a) ==
    {ParseInt(rows[i].published_year[1]) :
        i \in {j \in DOMAIN rows : rows[j].authors = a}}

HasThreeConsecutiveYears(rows, a) ==
    \E y \in AuthorYears(rows, a) :
        (y + 1) \in AuthorYears(rows, a) /\ (y + 2) \in AuthorYears(rows, a)

\* C7: the analysis 'Count Authors Who Published 3 Consecutive Years' lists
\* exactly the author values with books in three consecutive years.
C7_ListsConsecutiveAuthors ==
    (analysis_choice = "Count Authors Who Published 3 Consecutive Years"
        /\ raised = "none") =>
        {r.authors : r \in result.rows}
            = {a \in {tableRows[i].authors : i \in DOMAIN tableRows} :
                    HasThreeConsecutiveYears(tableRows, a)}

\* C8: a Search whose response has a status other than 200, no 'items' or an
\* empty list leaves the table as it was, calls neither transform_data nor
\* save_to_database and shows only 'No books found.'.
C8_EmptySearchKeepsTable ==
    [][(/\ pc = "search" /\ clicked = "Search" /\ pc' # "crashed"
        /\ \/ response'.status_code # 200
           \/ "items" \notin DOMAIN response'.body
           \/ response'.body.items = <<>>) =>
          /\ books' = <<>>
          /\ tableExists' = tableExists
          /\ tableRows' = tableRows
          /\ df' = df
          /\ shown' = <<[widget |-> "error", text |-> "No books found."]>>]_vars

\* a search answered 503 carrying items after an earlier search filled the table
C8_Witness ==
    /\ pc = "display"
    /\ clicked = "Search"
    /\ response.status_code = 503
    /\ "items" \in DOMAIN response.body
    /\ books = <<>>
    /\ Len(tableRows) = 2
    /\ shown = <<[widget |-> "error", text |-> "No books found."]>>

\* C9: whenever the stored-data query 'SELECT * FROM books' is about to run,
\* the table exists, so the display and the details loop never fail.
C9_TableExistsAtDisplay == pc = "display" => tableExists

====
